---- MODULE Spec2Model ----
(***************************************************************************)
(* Model of chains/serializers.py of safe-config-service: the serializers  *)
(* that turn Chain, GasPrice, Wallet and Feature records into the          *)
(* representation served by the chains API.                                *)
(*                                                                         *)
(* A nullable column is modelled as a sequence of length at most one:      *)
(* <<>> is Python's None / JSON null, <<v>> is the value v.  Rendered      *)
(* fields use the same encoding, since a field of a rest_framework         *)
(* Serializer renders a None attribute as null.                            *)
(***************************************************************************)
EXTENDS Integers, Sequences, FiniteSets, Bags, TLC

(* ------------------------------ bounds -------------------------------- *)
(* the number of GasPrice, Wallet and Feature rows in the tables *)
NumGasPrices == 2
NumWallets == 2
NumFeatures == 2

GasPriceIds == 1..NumGasPrices
WalletIds == 1..NumWallets
FeatureIds == 1..NumFeatures

(* the largest value drawn for GasPrice.rank *)
MaxRank == 2

Ranks == 1..MaxRank

ChainIds == {1, 2}

None == <<>>
Some(v) == <<v>>

(* The keys drawn for wallets and features: words, written as the         *)
(* sequences of the alphabet positions of their letters ("a", "aa", "ab",  *)
(* "b").                                                                   *)
Keys == {<<1>>, <<1, 1>>, <<1, 2>>, <<2>>}

(* ----------------------- the records (inputs) -------------------------- *)
(* Values drawn for GasPrice.oracle_uri / oracle_parameter / gwei_factor   *)
(* (gwei_factor in units of 10^-9) and for GasPrice.fixed_wei_value.       *)
OracleSettings ==
    { [oracle_uri |-> None, oracle_parameter |-> None, gwei_factor |-> 1000000000],
      [oracle_uri |-> Some(""), oracle_parameter |-> None, gwei_factor |-> 1000000000],
      [oracle_uri |-> Some("https://gas.example/api"), oracle_parameter |-> Some("fast"),
       gwei_factor |-> 1000000000],
      [oracle_uri |-> Some("https://gas.example/api"), oracle_parameter |-> None,
       gwei_factor |-> 100000001] }

FixedWeiValues == {None, Some(0), Some(25)}

(* The rows drawn to exercise the dispatch of GasPriceSerializer: every    *)
(* setting of the oracle and fixed columns, on one chain and at one rank.  *)
DispatchRows ==
    { [chain |-> 1, oracle_uri |-> o.oracle_uri, oracle_parameter |-> o.oracle_parameter,
       gwei_factor |-> o.gwei_factor, fixed_wei_value |-> f, rank |-> 1] :
      o \in OracleSettings, f \in FixedWeiValues }

(* The rows drawn to exercise the listing: on every chain and at every     *)
(* rank, an oracle row, a fixed row, a row with neither column set and a   *)
(* row with a fixed value of zero.                                         *)
ListingRows ==
    { [chain |-> c, oracle_uri |-> k[1], oracle_parameter |-> k[2],
       gwei_factor |-> 1000000000, fixed_wei_value |-> k[3], rank |-> r] :
      c \in ChainIds, r \in Ranks,
      k \in { <<Some("https://gas.example/api"), Some("fast"), None>>,
              <<None, None, Some(25)>>,
              <<None, None, None>>,
              <<None, None, Some(0)>> } }

GasPrice == DispatchRows \cup ListingRows

Wallet == [key : Keys]

Feature == [key : Keys, chains : SUBSET ChainIds]

(* The scalar columns of a Chain row; they play no part in any branch of   *)
(* the serializers, so each chain id carries one fixed row.                *)
Chain(c) ==
    [ id |-> c,
      name |-> IF c = 1 THEN "Mainnet" ELSE "Testnet",
      short_name |-> IF c = 1 THEN "eth" ELSE "tst",
      description |-> "",
      l2 |-> (c # 1),
      rpc_authentication |-> "API_KEY_PATH",
      rpc_uri |-> "https://rpc.example/",
      safe_apps_rpc_authentication |-> "NO_AUTHENTICATION",
      safe_apps_rpc_uri |-> "https://apps-rpc.example/",
      block_explorer_uri_address_template |-> "https://scan.example/address/{{address}}",
      block_explorer_uri_tx_hash_template |-> "https://scan.example/tx/{{txHash}}",
      block_explorer_uri_api_template |-> "https://scan.example/api",
      currency_name |-> "Ether",
      currency_symbol |-> "ETH",
      currency_decimals |-> 18,
      currency_logo_uri |-> "chains/1/currency_logo.png",
      transaction_service_uri |-> "https://tx.example/",
      vpc_transaction_service_uri |-> "http://tx.internal/",
      theme_text_color |-> "#ffffff",
      theme_background_color |-> "#000000",
      ens_registry_address |-> IF c = 1 THEN Some("0x00000000000C2E074eC69A0dFb2997BA6C7d2e1e")
                                        ELSE None,
      recommended_master_copy_version |-> "1.3.0" ]

VARIABLES
    chains,            \* Chain rows, by id
    gasprices,         \* GasPrice rows, by position in the table
    wallets,           \* Wallet rows, by position in the table
    disabled_wallets,  \* per chain, the wallets its get_disabled_wallets() returns
    features,          \* Feature rows, by position in the table
    result             \* the outcome of the last serializer call, or None

vars == <<chains, gasprices, wallets, disabled_wallets, features, result>>

records == <<chains, gasprices, wallets, disabled_wallets, features>>

(* ------------------------- field rendering ----------------------------- *)
(* A field of a Serializer is handed the attribute of the instance; a None *)
(* attribute is rendered as null, any other by the field's                 *)
(* to_representation.                                                      *)

(* CharField / URLField.to_representation: str(value) of a string column. *)
CharField(attribute) == IF attribute = None THEN None ELSE Some(attribute[1])

(* CharField over an integer column (Uint256Field, the primary key). *)
CharFieldOfInt(attribute) == IF attribute = None THEN None ELSE Some(ToString(attribute[1]))

RECURSIVE ZeroPad(_, _)
ZeroPad(s, width) == IF Len(s) >= width THEN s ELSE ZeroPad("0" \o s, width)

(* DecimalField(max_digits=19, decimal_places=9).to_representation: the    *)
(* value quantized to 9 decimal places, as a string.                       *)
DecimalField(attribute) ==
    IF attribute = None THEN None
    ELSE Some(ToString(attribute[1] \div 1000000000) \o "."
                \o ZeroPad(ToString(attribute[1] % 1000000000), 9))

(* ------------------------ gas price serializers ------------------------ *)
(* The oracle rendering with gas_parameter read from the wrong column. *)
GasPriceOracleSerializerUriAsParameter(instance) ==
    [ type |-> "oracle",
      uri |-> CharField(instance.oracle_uri),
      gas_parameter |-> CharField(instance.oracle_uri),
      gwei_factor |-> DecimalField(Some(instance.gwei_factor)) ]

GasPriceOracleSerializer(instance) ==
    [ type |-> "oracle",
      uri |-> CharField(instance.oracle_uri),
      gas_parameter |-> CharField(instance.oracle_parameter),
      gwei_factor |-> DecimalField(Some(instance.gwei_factor)) ]

GasPriceFixedSerializer(instance) ==
    [ type |-> "fixed",
      wei_value |-> CharFieldOfInt(instance.fixed_wei_value) ]

(* str(instance.chain) inside the message of the exception *)
ChainStr(c) == "chain_id=" \o ToString(c)

APIException(instance) ==
    "The gas price oracle or a fixed gas price was not provided for chain "
        \o ChainStr(instance.chain)

Returned(data) == [kind |-> "data", data |-> data]

Raised(detail) == [kind |-> "exception", detail |-> detail]

(* Python truth value of a nullable string / of a nullable integer *)
TruthyStr(v) == v # None /\ v[1] # ""

TruthyInt(v) == v # None /\ v[1] # 0

(* The dispatch with the oracle branch not looking at fixed_wei_value. *)
GasPriceSerializerOracleFirst(instance) ==
    IF TruthyStr(instance.oracle_uri)
    THEN Returned(GasPriceOracleSerializer(instance))
    ELSE IF TruthyInt(instance.fixed_wei_value) /\ instance.oracle_uri = None
    THEN Returned(GasPriceFixedSerializer(instance))
    ELSE Raised(APIException(instance))

(* The dispatch with "is not None" tests in place of the truth values. *)
GasPriceSerializerNotNone(instance) ==
    IF instance.oracle_uri # None /\ instance.fixed_wei_value = None
    THEN Returned(GasPriceOracleSerializer(instance))
    ELSE IF instance.fixed_wei_value # None /\ instance.oracle_uri = None
    THEN Returned(GasPriceFixedSerializer(instance))
    ELSE Raised(APIException(instance))

GasPriceSerializer(instance) ==
    IF TruthyStr(instance.oracle_uri) /\ instance.fixed_wei_value = None
    THEN Returned(GasPriceOracleSerializer(instance))
    ELSE IF TruthyInt(instance.fixed_wei_value) /\ instance.oracle_uri = None
    THEN Returned(GasPriceFixedSerializer(instance))
    ELSE Raised(APIException(instance))

(* ------------------------------ order_by ------------------------------- *)
(* "key" ascending: words compare letter by letter, a proper prefix first. *)
RECURSIVE KeyLeq(_, _)
KeyLeq(a, b) ==
    IF a = <<>> THEN TRUE
    ELSE IF b = <<>> THEN FALSE
    ELSE IF a[1] # b[1] THEN a[1] < b[1]
    ELSE KeyLeq(Tail(a), Tail(b))

(* the listings of the rows `ids`, each row once *)
Listings(ids) ==
    { s \in [1..Cardinality(ids) -> ids] : \A i, j \in DOMAIN s : i # j => s[i] # s[j] }

(* instance.gasprice_set.all() and instance.feature_set.all() *)
gasprice_set(c) == {g \in GasPriceIds : gasprices[g].chain = c}

(* Feature.objects.all() in place of the chain's own features. *)
feature_set_all(c) == FeatureIds

feature_set(c) == {f \in FeatureIds : c \in features[f].chains}

(* QuerySet.order_by(column): the listing of the rows that ascends in the  *)
(* column.  A row id is the row's position in the table, and rows that tie *)
(* in the column come in the order the table holds them; reading does not  *)
(* move rows, and Init puts the rows in the table in every order.          *)

(* instance.gasprice_set.all().order_by("-rank") *)
ranked_gas_prices_descending(c) ==
    { s \in Listings(gasprice_set(c)) :
        \A i, j \in DOMAIN s : i < j => gasprices[s[i]].rank >= gasprices[s[j]].rank }

(* instance.gasprice_set.all().order_by("rank") *)
ranked_gas_prices(c) ==
    { s \in Listings(gasprice_set(c)) :
        \A i, j \in DOMAIN s : i < j =>
            \/ gasprices[s[i]].rank < gasprices[s[j]].rank
            \/ gasprices[s[i]].rank = gasprices[s[j]].rank /\ s[i] < s[j] }

(* instance.get_disabled_wallets() without order_by("key") *)
disabled_wallets_unordered(c) == Listings(disabled_wallets[c])

(* instance.get_disabled_wallets().order_by("key") *)
disabled_wallets_by_key(c) ==
    { s \in Listings(disabled_wallets[c]) :
        \A i, j \in DOMAIN s : i < j =>
            /\ KeyLeq(wallets[s[i]].key, wallets[s[j]].key)
            /\ wallets[s[i]].key = wallets[s[j]].key => s[i] < s[j] }

(* instance.feature_set.all().order_by("key") *)
enabled_features(c) ==
    { s \in Listings(feature_set(c)) :
        \A i, j \in DOMAIN s : i < j =>
            /\ KeyLeq(features[s[i]].key, features[s[j]].key)
            /\ features[s[i]].key = features[s[j]].key => s[i] < s[j] }

(* ------------------------- nested serializers -------------------------- *)
(* The theme with the background colour left out. *)
ThemeSerializerTextOnly(obj) ==
    [ text_color |-> CharField(Some(obj.theme_text_color)) ]

ThemeSerializer(obj) ==
    [ text_color |-> CharField(Some(obj.theme_text_color)),
      background_color |-> CharField(Some(obj.theme_background_color)) ]

CurrencySerializer(obj) ==
    [ name |-> CharField(Some(obj.currency_name)),
      symbol |-> CharField(Some(obj.currency_symbol)),
      decimals |-> Some(obj.currency_decimals),
      logo_uri |-> Some("/media/" \o obj.currency_logo_uri) ]

RpcUriSerializer(obj) ==
    [ authentication |-> Some(obj.rpc_authentication),
      value |-> Some(obj.rpc_uri) ]

SafeAppsRpcUriSerializer(obj) ==
    [ authentication |-> Some(obj.safe_apps_rpc_authentication),
      value |-> Some(obj.safe_apps_rpc_uri) ]

BlockExplorerUriTemplateSerializer(obj) ==
    [ address |-> CharField(Some(obj.block_explorer_uri_address_template)),
      tx_hash |-> CharField(Some(obj.block_explorer_uri_tx_hash_template)),
      api |-> CharField(Some(obj.block_explorer_uri_api_template)) ]

FeatureSerializer(instance) == instance.key

WalletSerializer(instance) == instance.key

(* --------------------------- many=True --------------------------------- *)
Min(S) == CHOOSE m \in S : \A n \in S : m <= n

(* many=True with a raising row skipped instead of ending the call. *)
GasPriceListSerializerSkipping(ranked) ==
    LET each == [i \in DOMAIN ranked |-> GasPriceSerializer(gasprices[ranked[i]])]
        RECURSIVE Kept(_)
        Kept(i) == IF i = 0 THEN <<>>
                   ELSE IF each[i].kind = "exception" THEN Kept(i - 1)
                   ELSE Append(Kept(i - 1), each[i].data)
    IN  Returned(Kept(Len(ranked)))

(* GasPriceSerializer(queryset, many=True).data: the rows are rendered in  *)
(* the order of the queryset; the first row that raises ends the call.     *)
GasPriceListSerializer(ranked) ==
    LET each == [i \in DOMAIN ranked |-> GasPriceSerializer(gasprices[ranked[i]])]
        raising == {i \in DOMAIN each : each[i].kind = "exception"}
    IN  IF raising # {} THEN each[Min(raising)]
        ELSE Returned([i \in DOMAIN each |-> each[i].data])

WalletListSerializer(listed) == [i \in DOMAIN listed |-> WalletSerializer(wallets[listed[i]])]

FeatureListSerializer(listed) == [i \in DOMAIN listed |-> FeatureSerializer(features[listed[i]])]

(* --------------------------- ChainSerializer --------------------------- *)
(* The fields are rendered in the order of Meta.fields; an exception of    *)
(* get_gas_price leaves the whole call without a representation.           *)
ChainSerializer(c, ranked, listed, enabled) ==
    LET obj == chains[c]
        gas_price == GasPriceListSerializer(ranked)
    IN  IF gas_price.kind = "exception" THEN gas_price
        ELSE Returned(
          [ chain_id |-> CharFieldOfInt(Some(obj.id)),
            chain_name |-> CharField(Some(obj.name)),
            short_name |-> CharField(Some(obj.short_name)),
            description |-> CharField(Some(obj.description)),
            l2 |-> Some(obj.l2),
            rpc_uri |-> RpcUriSerializer(obj),
            safe_apps_rpc_uri |-> SafeAppsRpcUriSerializer(obj),
            block_explorer_uri_template |-> BlockExplorerUriTemplateSerializer(obj),
            native_currency |-> CurrencySerializer(obj),
            transaction_service |-> CharField(Some(obj.transaction_service_uri)),
            vpc_transaction_service |-> CharField(Some(obj.vpc_transaction_service_uri)),
            theme |-> ThemeSerializer(obj),
            gas_price |-> gas_price.data,
            ens_registry_address |-> CharField(obj.ens_registry_address),
            recommended_master_copy_version |->
                CharField(Some(obj.recommended_master_copy_version)),
            disabled_wallets |-> WalletListSerializer(listed),
            features |-> FeatureListSerializer(enabled) ])

(* ------------------------------ actions -------------------------------- *)
(* The call with the default gwei_factor filled in on the row and saved. *)
GasPriceToRepresentationSaving(g) ==
    /\ result' = Some([serializer |-> "GasPriceSerializer", instance |-> g,
                       out |-> GasPriceSerializer(gasprices[g])])
    /\ gasprices' = [gasprices EXCEPT ![g].gwei_factor = 1000000000]
    /\ UNCHANGED <<chains, wallets, disabled_wallets, features>>

(* GasPriceSerializer(instance).data for one GasPrice row *)
GasPriceToRepresentation(g) ==
    /\ result' = Some([serializer |-> "GasPriceSerializer", instance |-> g,
                       out |-> GasPriceSerializer(gasprices[g])])
    /\ UNCHANGED records

(* ChainSerializer(instance).data for one Chain row *)
ChainToRepresentation(c) ==
    /\ \E ranked \in ranked_gas_prices(c), listed \in disabled_wallets_by_key(c),
          enabled \in enabled_features(c) :
            result' = Some([serializer |-> "ChainSerializer", instance |-> c,
                            out |-> ChainSerializer(c, ranked, listed, enabled)])
    /\ UNCHANGED records

(* ------------------------------- Init ---------------------------------- *)
(* A baseline database in which every chain serializes, its rows stored    *)
(* against the order of rank and of key.                                   *)
BaseGasPrices ==
    [g \in GasPriceIds |->
        [ chain |-> ((g - 1) % 2) + 1,
          oracle_uri |-> IF g % 2 = 1 THEN Some("https://gas.example/api") ELSE None,
          oracle_parameter |-> IF g % 2 = 1 THEN Some("fast") ELSE None,
          gwei_factor |-> 1000000000,
          fixed_wei_value |-> IF g % 2 = 1 THEN None ELSE Some(25),
          rank |-> MaxRank - ((g - 1) % MaxRank) ]]

BaseWallets == [w \in WalletIds |-> [key |-> <<2 - ((w - 1) % 2)>>]]

BaseDisabledWallets == [c \in ChainIds |-> WalletIds]

BaseFeatures ==
    [f \in FeatureIds |-> [key |-> <<2 - ((f - 1) % 2)>>, chains |-> ChainIds]]

(* The database holds gas price rows that exercise the dispatch, or the    *)
(* listing, over the baseline wallets and features; or any wallets, or any *)
(* features, over the baseline rest.                                       *)
Init ==
    /\ chains = [c \in ChainIds |-> Chain(c)]
    /\ result = None
    /\ \/ /\ gasprices \in [GasPriceIds -> DispatchRows] \cup [GasPriceIds -> ListingRows]
          /\ wallets = BaseWallets
          /\ disabled_wallets = BaseDisabledWallets
          /\ features = BaseFeatures
       \/ /\ gasprices = BaseGasPrices
          /\ wallets \in [WalletIds -> Wallet]
          /\ disabled_wallets \in [ChainIds -> SUBSET WalletIds]
          /\ features = BaseFeatures
       \/ /\ gasprices = BaseGasPrices
          /\ wallets = BaseWallets
          /\ disabled_wallets = BaseDisabledWallets
          /\ features \in [FeatureIds -> Feature]

Next ==
    \/ \E g \in GasPriceIds : GasPriceToRepresentation(g)
    \/ \E c \in ChainIds : ChainToRepresentation(c)

Spec == Init /\ [][Next]_vars

(* ============================== claims ================================= *)
GasPriceCall == result # None /\ result[1].serializer = "GasPriceSerializer"

ChainCall == result # None /\ result[1].serializer = "ChainSerializer"

(* the row, the chain and the outcome of the last call *)
Row == gasprices[result[1].instance]

Called == result[1].instance

Out == result[1].out

Represented == Out.kind = "data"

(* the gas price rows and the features that belong to chain c *)
GasPricesOf(c) == {g \in GasPriceIds : gasprices[g].chain = c}

FeaturesOf(c) == {f \in FeatureIds : c \in features[f].chains}

MessagePrefix == "The gas price oracle or a fixed gas price was not provided for chain "

RaisedFor(c) ==
    /\ DOMAIN Out = {"kind", "detail"}
    /\ Out.kind = "exception"
    /\ Out.detail = MessagePrefix \o ChainStr(c)

(* C1: a gas price row with oracle_uri and fixed_wei_value both set, or    *)
(* both null, gets no representation: the call raises the API exception,   *)
(* whose message names the row's chain.                                    *)
C1_BothOrNeitherRaises ==
    (GasPriceCall /\ ((Row.oracle_uri # None) <=> (Row.fixed_wei_value # None)))
        => RaisedFor(Row.chain)

C1_Witness ==
    /\ GasPriceCall
    /\ Row.oracle_uri # None /\ Row.fixed_wei_value # None
    /\ Out.kind = "exception"

IsOracleOf(data, row) ==
    /\ DOMAIN data = {"type", "uri", "gas_parameter", "gwei_factor"}
    /\ data.type = "oracle"
    /\ data.uri = row.oracle_uri
    /\ data.gas_parameter = row.oracle_parameter
    /\ data.gwei_factor # None

(* C2 as stated: a gas price row whose oracle_uri is not null and whose    *)
(* fixed_wei_value is null is rendered, without exception, as an object of *)
(* type "oracle" with uri, gas_parameter and gwei_factor.                  *)
C2_OracleWhenNotNull ==
    (GasPriceCall /\ Row.oracle_uri # None /\ Row.fixed_wei_value = None)
        => (Represented /\ IsOracleOf(Out.data, Row))

(* C2 amended: a gas price row whose oracle_uri is not null and not empty  *)
(* and whose fixed_wei_value is null is rendered, without exception, as an *)
(* object of type "oracle" with uri, gas_parameter and gwei_factor.        *)
C2_OracleWhenNonEmpty ==
    (GasPriceCall /\ Row.oracle_uri # None /\ Row.oracle_uri # Some("")
        /\ Row.fixed_wei_value = None)
        => (Represented /\ IsOracleOf(Out.data, Row))

C2_Witness ==
    /\ GasPriceCall
    /\ Row.oracle_uri = Some("https://gas.example/api") /\ Row.fixed_wei_value = None
    /\ Row.oracle_parameter = Some("fast")
    /\ Represented /\ Out.data.type = "oracle"

(* C3: a gas price row whose fixed_wei_value is not null (zero included)   *)
(* and whose oracle_uri is null is rendered, without exception, as an      *)
(* object of type "fixed" whose wei_value is the row's fixed_wei_value.    *)
C3_FixedWhenNotNull ==
    (GasPriceCall /\ Row.fixed_wei_value # None /\ Row.oracle_uri = None)
        => /\ Represented
           /\ DOMAIN Out.data = {"type", "wei_value"}
           /\ Out.data.type = "fixed"
           /\ Out.data.wei_value = Some(ToString(Row.fixed_wei_value[1]))

(* C4: in a chain representation the gas_price array ascends in rank: it   *)
(* is the rendering, entry by entry, of a listing of the chain's gas price *)
(* rows in which no row comes before a row of lower rank.                  *)
C4_GasPriceAscendingRank ==
    (ChainCall /\ Represented) =>
        \E s \in Listings(GasPricesOf(Called)) :
            /\ \A i, j \in DOMAIN s : i < j => gasprices[s[i]].rank <= gasprices[s[j]].rank
            /\ Len(Out.data.gas_price) = Len(s)
            /\ \A i \in DOMAIN s :
                  Returned(Out.data.gas_price[i]) = GasPriceSerializer(gasprices[s[i]])

C4_Witness ==
    /\ ChainCall /\ Represented
    /\ Len(Out.data.gas_price) >= 2
    /\ Out.data.gas_price[1] # Out.data.gas_price[2]
    /\ \E g, h \in GasPricesOf(Called) : g < h /\ gasprices[g].rank > gasprices[h].rank

(* alphabetical order of two keys: equal up to the first position where    *)
(* they differ, where the first has the smaller letter or has ended        *)
Alphabetical(a, b) ==
    \/ a = b
    \/ \E k \in 1..(Len(b)) :
          /\ \A n \in 1..(k - 1) : n <= Len(a) /\ a[n] = b[n]
          /\ k > Len(a) \/ a[k] < b[k]

Sorted(keys) == \A i, j \in DOMAIN keys : i < j => Alphabetical(keys[i], keys[j])

(* C5: in a chain representation the disabled_wallets array and the        *)
(* features array are each in ascending alphabetical order of key.         *)
C5_KeysSorted ==
    (ChainCall /\ Represented) =>
        (Sorted(Out.data.disabled_wallets) /\ Sorted(Out.data.features))

C5_Witness ==
    /\ ChainCall /\ Represented
    /\ \E w, v \in disabled_wallets[Called] :
          w < v /\ wallets[w].key # wallets[v].key /\ Alphabetical(wallets[v].key, wallets[w].key)
    /\ \E f, e \in FeaturesOf(Called) :
          f < e /\ features[f].key # features[e].key
                /\ Alphabetical(features[e].key, features[f].key)

ChainFields ==
    { "chain_id", "chain_name", "short_name", "description", "l2", "rpc_uri",
      "safe_apps_rpc_uri", "block_explorer_uri_template", "native_currency",
      "transaction_service", "vpc_transaction_service", "theme", "gas_price",
      "ens_registry_address", "recommended_master_copy_version", "disabled_wallets",
      "features" }

(* C6: a chain representation has exactly the 17 top-level fields, and its *)
(* rpc_uri, safe_apps_rpc_uri, block_explorer_uri_template,                *)
(* native_currency and theme objects have exactly their listed fields.     *)
C6_ChainFields ==
    (ChainCall /\ Represented) =>
        /\ DOMAIN Out.data = ChainFields
        /\ Cardinality(DOMAIN Out.data) = 17
        /\ DOMAIN Out.data.rpc_uri = {"authentication", "value"}
        /\ DOMAIN Out.data.safe_apps_rpc_uri = {"authentication", "value"}
        /\ DOMAIN Out.data.block_explorer_uri_template = {"address", "tx_hash", "api"}
        /\ DOMAIN Out.data.native_currency = {"name", "symbol", "decimals", "logo_uri"}
        /\ DOMAIN Out.data.theme = {"text_color", "background_color"}

C6_Witness ==
    /\ ChainCall /\ Represented
    /\ Out.data.chain_id = Some("2")
    /\ Out.data.ens_registry_address = None

(* every outcome a call of the given serializer on the given instance can  *)
(* have over the records as they stand                                     *)
Outcomes(serializer, instance) ==
    IF serializer = "GasPriceSerializer" THEN {GasPriceSerializer(gasprices[instance])}
    ELSE { ChainSerializer(instance, r, w, f) :
             r \in ranked_gas_prices(instance),
             w \in disabled_wallets_by_key(instance),
             f \in enabled_features(instance) }

C8_ThreeOutcomes ==
    GasPriceCall =>
        \/ RaisedFor(Row.chain)
        \/ /\ DOMAIN Out = {"kind", "data"}
           /\ Represented
           /\ Out.data.type \in {"oracle", "fixed"}
           /\ Out.data.type = "oracle" =>
                 /\ "wei_value" \notin DOMAIN Out.data
                 /\ "uri" \in DOMAIN Out.data
                 /\ Out.data.uri # None /\ Out.data.uri # Some("")
           /\ Out.data.type = "fixed" =>
                 /\ DOMAIN Out.data \cap {"uri", "gas_parameter", "gwei_factor"} = {}
                 /\ "wei_value" \in DOMAIN Out.data
                 /\ Out.data.wei_value # None /\ Out.data.wei_value # Some("")

C8_Witness ==
    /\ GasPriceCall
    /\ Row.oracle_uri = Some("") /\ Row.fixed_wei_value = None
    /\ Out.kind = "exception"

(* a gas price row with both or neither of its two columns usable *)
Usable(row) == <<TruthyStr(row.oracle_uri), TruthyInt(row.fixed_wei_value)>>

Offending(c) ==
    {g \in GasPricesOf(c) : Usable(gasprices[g]) \in {<<TRUE, TRUE>>, <<FALSE, FALSE>>}}

(* C9: when a gas price row of the chain has both or neither of oracle_uri *)
(* and fixed_wei_value usable, the chain gets no representation at all and *)
(* the exception is the one of the offending row of lowest rank; a chain   *)
(* without gas price rows is represented with an empty gas_price array.    *)
C9_ChainFailsAsAWhole ==
    ChainCall =>
        /\ Offending(Called) # {} =>
              \E g \in Offending(Called) :
                  /\ \A h \in Offending(Called) : gasprices[g].rank <= gasprices[h].rank
                  /\ RaisedFor(gasprices[g].chain)
                  /\ Out = GasPriceSerializer(gasprices[g])
        /\ GasPricesOf(Called) = {} => (Represented /\ Out.data.gas_price = <<>>)

C9_Witness ==
    /\ ChainCall
    /\ Offending(Called) # {}
    /\ \E g \in GasPricesOf(Called) \ Offending(Called) :
          /\ GasPriceSerializer(gasprices[g]).kind = "data"
          /\ \A h \in Offending(Called) : gasprices[g].rank < gasprices[h].rank
    /\ Out.kind = "exception"

(* the multiset of the entries of an array, and of the values a column     *)
(* takes over the rows `ids`                                               *)
BagOfSeq(s) ==
    [x \in {s[i] : i \in DOMAIN s} |-> Cardinality({i \in DOMAIN s : s[i] = x})]

BagOfColumn(ids, value) ==
    [x \in {value[r] : r \in ids} |-> Cardinality({r \in ids : value[r] = x})]

WalletKey == [w \in WalletIds |-> wallets[w].key]

FeatureKey == [f \in FeatureIds |-> features[f].key]

Rendering == [g \in GasPriceIds |-> GasPriceSerializer(gasprices[g])]

(* C10: in a chain representation gas_price has one entry per gas price    *)
(* row of the chain, disabled_wallets is the multiset of the keys of the   *)
(* wallets of the chain's get_disabled_wallets(), and features is the      *)
(* multiset of the keys of the chain's features; nothing else appears.     *)
C10_ListingsComplete ==
    (ChainCall /\ Represented) =>
        /\ Len(Out.data.gas_price) = Cardinality(GasPricesOf(Called))
        /\ BagOfSeq([i \in DOMAIN Out.data.gas_price |-> Returned(Out.data.gas_price[i])])
             = BagOfColumn(GasPricesOf(Called), Rendering)
        /\ BagOfSeq(Out.data.disabled_wallets)
             = BagOfColumn(disabled_wallets[Called], WalletKey)
        /\ BagOfSeq(Out.data.features) = BagOfColumn(FeaturesOf(Called), FeatureKey)

C10_Witness ==
    /\ ChainCall /\ Represented
    /\ Len(Out.data.features) = 1
    /\ \E f \in FeatureIds : Called \notin features[f].chains /\ features[f].chains # {}
    /\ Len(Out.data.disabled_wallets) >= 2
    /\ Len(Out.data.gas_price) >= 1
    /\ \E g \in GasPriceIds : gasprices[g].chain # Called

====
